---- MODULE Spec2Model ----
(***************************************************************************)
(* A model of the gocron scheduler engine (src/scheduler.go): the job      *)
(* registry (jobs slice + jobMap), the emergency queue, runPending, and    *)
(* the Start/Stop lifecycle with its mutex and its two unbuffered          *)
(* channels.  The Job type itself (newJob, init, isInit, shouldRun, run,   *)
(* pause, resume, updateInterval) is not part of the sources at hand; it   *)
(* is modelled from the Job contract of the specification (section 6).     *)
(*                                                                         *)
(* Eight specifications share the variables:                               *)
(*   Spec      one caller issuing the public registry operations, each of  *)
(*             which runs under the scheduler mutex and is one step;       *)
(*   SpecPause the same operations, with a log of which jobs were paused   *)
(*             by name and how they were resumed;                          *)
(*   SpecMany  registries of up to seven jobs, under either sort.Sort,     *)
(*             with the order in which a tick runs the jobs;               *)
(*   SpecTwo   a scheduler of NewScheduler() next to the defaultScheduler  *)
(*             of the package (src/gocron.go);                             *)
(*   SpecLife  caller threads, the mutex, the loop goroutines and the      *)
(*             channel rendezvous of Start() and Stop(), with jobs         *)
(*             registered, paused and run by hand meanwhile;               *)
(*   SpecCycle Start(), Stop() and the goroutines under fair scheduling;   *)
(*   SpecSteps every operation in steps (call, Lock, body, Unlock) and     *)
(*             runPending one job at a time, by a driver and its clients;  *)
(*   SpecRace  SpecSteps with Location(), which takes no lock.             *)
(***************************************************************************)
EXTENDS Integers, Sequences, FiniteSets, TLC

\* ---------------------------------------------------------------- bounds
\* Jobs that newJob() may allocate in one behaviour of Spec and SpecPause.
MaxJobs == 3
\* Intervals passed to Every/EveryWithName/UpdateIntervalWithName: 0..MaxInterval.
MaxInterval == 1
\* The wall clock runs from 1 to MaxTime (0 is Go's zero time.Time).
MaxTime == 2
\* Caller threads of SpecLife are 1..MaxThreads.
MaxThreads == 2
\* Loop goroutines that Start() may spawn in one behaviour of SpecLife.
MaxLoops == 2
\* Jobs that may be registered in one behaviour of SpecLife.
MaxLifeJobs == 2
\* The wall clock of SpecLife runs from 1 to MaxLifeTime.
MaxLifeTime == 3

\* Registry jobs and emergency jobs of one behaviour of SpecMany, whose
\* registry is long enough for sort.Sort to go beyond its insertion sort.
MaxManyJobs == 7
MaxManyEmergency == 1
\* The longest delay passed to RunAllWithDelay, in ticker periods.
MaxDelay == 1
\* RunAll and RunAllWithDelay are called while no job has its nextRun beyond.
MaxNextRun == 4
\* SpecSteps: jobs ever created.
MaxStepJobs == 2

Nil == 0
\* Handles stand for *Job pointers: every newJob() allocates the next one.
MaxHandles ==
    IF MaxJobs > MaxManyJobs + MaxManyEmergency THEN MaxJobs
    ELSE MaxManyJobs + MaxManyEmergency
Handles == 1..MaxHandles
\* The implementations of sort.Sort: quickSort (the toolchains up to Go 1.18)
\* and pdqsort (from Go 1.19).
SortImpls == {"quickSort", "pdqsort"}
\* Values of s.location.
Locations == {"Local", "UTC"}
Intervals == 0..MaxInterval
Names == {"a"}
Threads == 1..MaxThreads
Loops == 1..MaxLoops
Free == 0
\* The holder of s.mutex when it is the goroutine l of Start().
Goroutine(l) == MaxThreads + l
\* A caller thread inside no public operation; no runPending in progress.
NoCall == [op |-> "none", at |-> "none", now |-> 0]
NoTick == [owner |-> Free, now |-> 0, k |-> 0]

VARIABLES
    jobs,       \* s.jobs: sequence of handles
    jobMap,     \* s.jobMap: Names -> handle, Nil when the name is absent
    ejobs,      \* s.ejobs: sequence of handles
    heap,       \* the Job objects, by handle
    nextId,     \* the next handle newJob() allocates
    isRunning,  \* s.isRunning
    mutex,      \* s.mutex: Free or the thread that holds it
    pc,         \* where each caller thread stands inside Start()/Stop()
    loops,      \* the loop goroutines: [pc, now, starter]
    nLoops,     \* goroutines spawned so far
    ticker,     \* per loop, the buffered tick of its time.Ticker (0: none)
    clock,      \* time.Now()
    ran,        \* run() calls made on each handle by the latest public operation or tick
    last,       \* the latest public operation: its name, handle, name argument, result
    pauseLog,   \* per handle: "paused" by PauseWithName, "resumedAll" when only
                \* ResumeAll has re-enabled it since, "no" otherwise
    ticked,     \* the tick timestamps for which a goroutine has called runPending
    location,   \* s.location
    sortImpl,   \* the sort.Sort the program was built with
    order,      \* SpecMany: the handles the latest tick called run() on, in order
    djobs,      \* SpecTwo: defaultScheduler.jobs (gocron.go)
    call,       \* SpecSteps: per caller thread, the public operation it is in:
                \* [op, at, now], at "lock" before s.mutex.Lock() returns,
                \* "body" with the mutex held, "unlock" before the deferred Unlock
    tick        \* SpecSteps: the runPending in progress: [owner, now, k]

vars == <<jobs, jobMap, ejobs, heap, nextId, isRunning, mutex, pc, loops,
          nLoops, ticker, clock, ran, last, pauseLog, ticked, location,
          sortImpl, order, djobs, call, tick>>

\* ------------------------------------------------------------ Job (contract)
NewJob(interval) ==
    [interval |-> interval, enabled |-> TRUE, init |-> FALSE,
     lastRun |-> 0, nextRun |-> 0, loc |-> "Local"]

JobLocation(j, loc) == [j EXCEPT !.loc = loc]

IsInit(j) == j.init

JobInit(j, now) ==
    [j EXCEPT !.init = TRUE, !.lastRun = now, !.nextRun = now + j.interval]

ShouldRun(j, now) == j.enabled /\ now >= j.nextRun

JobRun(j) ==
    [j EXCEPT !.lastRun = j.nextRun, !.nextRun = j.nextRun + j.interval]

JobPause(j) == [j EXCEPT !.enabled = FALSE]

JobResume(j) == [j EXCEPT !.enabled = TRUE]

JobUpdateInterval(j, interval) == [j EXCEPT !.interval = interval]

\* ------------------------------------------------------------ slice helpers
\* Deletion by moving the last element into the hole: s[i] = s[len-1]; s = s[:len-1]
RemoveAt_swapLast(s, i) ==
    [k \in 1..(Len(s) - 1) |-> IF k = i THEN s[Len(s)] ELSE s[k]]

\* copy(s[i:], s[i+1:]); s[len-1] = nil; s = s[:len-1]
RemoveAt(s, i) == SubSeq(s, 1, i - 1) \o SubSeq(s, i + 1, Len(s))

\* first index holding h, 0 when there is none (for i, job := range s.jobs)
IndexOf(s, h) ==
    IF \E i \in 1..Len(s) : s[i] = h
    THEN CHOOSE i \in 1..Len(s) : s[i] = h /\ \A k \in 1..(i - 1) : s[k] # h
    ELSE 0

Range(s) == {s[i] : i \in 1..Len(s)}

\* The inner loop of the insertion sort: shift the larger intervals right,
\* then drop tmp into the hole.
RECURSIVE ShiftRight(_, _, _, _)
ShiftRight(s, j, tmp, hp) ==
    IF j >= 1 /\ hp[s[j]].interval > hp[tmp].interval
    THEN ShiftRight([s EXCEPT ![j + 1] = s[j]], j - 1, tmp, hp)
    ELSE [s EXCEPT ![j + 1] = tmp]

\* for i := 1; i < len(s.jobs); i++ { ... }   (1-based: i from 2)
RECURSIVE InsertionSortFrom(_, _, _)
InsertionSortFrom(s, i, hp) ==
    IF i > Len(s) THEN s
    ELSE InsertionSortFrom(ShiftRight(s, i - 1, s[i], hp), i + 1, hp)

\* A sort pass that trusts the old elements to be in order already and only
\* inserts the appended one.
InsertionSort_lastOnly(s, hp) == InsertionSortFrom(s, Len(s), hp)

InsertionSort(s, hp) == InsertionSortFrom(s, 2, hp)

\* sort.Interface: Less(i, j) is s.jobs[j].nextRun.After(s.jobs[i].nextRun)
Less(s, i, j, hp) == hp[s[j]].nextRun > hp[s[i]].nextRun

Swap(s, i, j) == [s EXCEPT ![i] = s[j], ![j] = s[i]]

\* sort.Sort(s) on a slice of at most 12 elements.  quickSort first makes one
\* shell pass with gap 6,
\*     for i := a + 6; i < b; i++ { if Less(i, i-6) { Swap(i, i-6) } }
\* and then runs the insertion sort; pdqsort runs the insertion sort alone:
\*     for j := i; j > a && Less(j, j-1); j-- { Swap(j, j-1) }
RECURSIVE ShellPassFrom(_, _, _)
ShellPassFrom(s, i, hp) ==
    IF i > Len(s) THEN s
    ELSE ShellPassFrom(IF Less(s, i, i - 6, hp) THEN Swap(s, i, i - 6) ELSE s,
                       i + 1, hp)

RECURSIVE SinkLeft(_, _, _)
SinkLeft(s, j, hp) ==
    IF j > 1 /\ Less(s, j, j - 1, hp)
    THEN SinkLeft(Swap(s, j, j - 1), j - 1, hp)
    ELSE s

RECURSIVE SortSortFrom(_, _, _)
SortSortFrom(s, i, hp) ==
    IF i > Len(s) THEN s
    ELSE SortSortFrom(SinkLeft(s, i, hp), i + 1, hp)

\* No sort at all: the slice is left in its storage order.
SortSort_none(s, hp) == s

SortSort(s, hp) ==
    SortSortFrom(IF sortImpl = "quickSort" THEN ShellPassFrom(s, 7, hp) ELSE s,
                 2, hp)

\* The eviction loop of EveryWithName: it ranges over the slice as it was
\* when the loop began (n elements of the backing array arr) and does not
\* break after a match; len is the current length of s.jobs.
RECURSIVE EvictLoop(_, _, _, _, _)
EvictLoop(arr, len, k, n, old) ==
    IF k > n THEN SubSeq(arr, 1, len)
    ELSE IF arr[k] = old /\ k <= len
         THEN EvictLoop(RemoveAt(SubSeq(arr, 1, len), k)
                            \o [x \in 1..(n - len + 1) |-> Nil],
                        len - 1, k + 1, n, old)
         ELSE EvictLoop(arr, len, k + 1, n, old)

Evict(s, old) == EvictLoop(s, Len(s), 1, Len(s), old)

\* ------------------------------------------------------------ runPending
NoRuns == [h \in Handles |-> 0]

\* for _, job := range s.ejobs { job.run() }
RECURSIVE RunEach(_, _, _, _, _)
RunEach(hp, rn, od, s, k) ==
    IF k > Len(s) THEN [heap |-> hp, ran |-> rn, order |-> od]
    ELSE RunEach([hp EXCEPT ![s[k]] = JobRun(hp[s[k]])],
                 [rn EXCEPT ![s[k]] = rn[s[k]] + 1],
                 Append(od, s[k]), s, k + 1)

\* A tick that initializes no job.
InitIfNeeded_skip(j, now) == j

\* if !job.isInit() { job.init(now) }
InitIfNeeded(j, now) == IF ~IsInit(j) THEN JobInit(j, now) ELSE j

\* A tick that runs every job without asking shouldRun.
RunIfDue_always(j, now) == [job |-> JobRun(j), calls |-> 1]

\* if job.shouldRun(now) { job.run() } else { continue }
RunIfDue(j, now) ==
    IF ShouldRun(j, now) THEN [job |-> JobRun(j), calls |-> 1]
    ELSE [job |-> j, calls |-> 0]

\* for _, job := range s.jobs { ... }
RECURSIVE RunDue(_, _, _, _, _, _)
RunDue(hp, rn, od, s, k, now) ==
    IF k > Len(s) THEN [heap |-> hp, ran |-> rn, order |-> od]
    ELSE LET r == RunIfDue(InitIfNeeded(hp[s[k]], now), now)
         IN  RunDue([hp EXCEPT ![s[k]] = r.job],
                    [rn EXCEPT ![s[k]] = rn[s[k]] + r.calls],
                    IF r.calls > 0 THEN Append(od, s[k]) ELSE od,
                    s, k + 1, now)

\* runPending(now) without s.ejobs = []*Job{}: the queue is run and kept.
runPending_keepQueue(now) ==
    LET e      == RunEach(heap, NoRuns, <<>>, ejobs, 1)
        sorted == SortSort(jobs, e.heap)
        r      == RunDue(e.heap, e.ran, e.order, sorted, 1, now)
    IN  [heap |-> r.heap, ran |-> r.ran, order |-> r.order,
         jobs |-> sorted, ejobs |-> ejobs]

\* The whole of runPending(now): the emergency jobs, the cleared queue,
\* sort.Sort(s), then the registry jobs.
runPending(now) ==
    LET e      == RunEach(heap, NoRuns, <<>>, ejobs, 1)
        sorted == SortSort(jobs, e.heap)
        r      == RunDue(e.heap, e.ran, e.order, sorted, 1, now)
    IN  [heap |-> r.heap, ran |-> r.ran, order |-> r.order,
         jobs |-> sorted, ejobs |-> <<>>]

\* The loop of RunAllWithDelay: if !job.isInit() { job.init(now) }; job.run()
RECURSIVE RunAllFrom(_, _, _, _, _, _)
RunAllFrom(hp, rn, od, s, k, now) ==
    IF k > Len(s) THEN [heap |-> hp, ran |-> rn, order |-> od]
    ELSE RunAllFrom([hp EXCEPT ![s[k]] = JobRun(InitIfNeeded(hp[s[k]], now))],
                    [rn EXCEPT ![s[k]] = rn[s[k]] + 1],
                    Append(od, s[k]), s, k + 1, now)

\* RunAllWithDelay running only the jobs that are due.
runAllWithDelay_due(js, now) ==
    LET sorted == SortSort(js, heap)
        r      == RunDue(heap, NoRuns, <<>>, sorted, 1, now)
    IN  [heap |-> r.heap, ran |-> r.ran, order |-> r.order, jobs |-> sorted]

\* The body of RunAllWithDelay on the scheduler whose s.jobs is js:
\* sort.Sort(s), then every job is run.
runAllWithDelay(js, now) ==
    LET sorted == SortSort(js, heap)
        r      == RunAllFrom(heap, NoRuns, <<>>, sorted, 1, now)
    IN  [heap |-> r.heap, ran |-> r.ran, order |-> r.order, jobs |-> sorted]

\* A Job that neither s.jobs, s.jobMap nor s.ejobs references any more cannot
\* be reached by the scheduler: its fields are no longer part of the state.
Reachable(js, jm, ej) ==
    Range(js) \cup {jm[n] : n \in Names} \cup Range(ej) \cup Range(djobs)

Unreferenced(hp, js, jm, ej) ==
    LET live == Reachable(js, jm, ej)
    IN  [h \in Handles |-> IF h \in live THEN hp[h] ELSE NewJob(0)]

Forgotten(pl, js, jm, ej) ==
    LET live == Reachable(js, jm, ej)
    IN  [h \in Handles |-> IF h \in live THEN pl[h] ELSE "no"]

\* ------------------------------------------------------------ public operations
\* A public operation begins with s.mutex.Lock() and ends with the deferred
\* Unlock().  Taken as one step it can start only when the mutex is free and
\* some caller thread is outside Start()/Stop(); taken stepwise (SpecSteps)
\* its body runs when its caller has come back from Lock().
CanCall ==
    \/ mutex = Free /\ \E t \in Threads : pc[t] = "idle"
    \/ \E t \in Threads : mutex = t /\ call[t].at = "body"

Allocated == 1..(nextId - 1)

\* The operation just performed: its name, the handle and name it was about,
\* and whether it found what it looked for.
Op(op, h, name, ret) == [op |-> op, h |-> h, name |-> name, ret |-> ret]

lifeVars == <<isRunning, mutex, pc, loops, nLoops, ticker, ticked>>

Every(interval) ==
    /\ CanCall
    /\ nextId \in Handles
    /\ LET h  == nextId
           hp == [heap EXCEPT ![h] = JobLocation(NewJob(interval), location)]
       IN  /\ heap' = hp
           /\ jobs' = InsertionSort(Append(jobs, h), hp)
           /\ last' = Op("Every", h, "", TRUE)
    /\ nextId' = nextId + 1
    /\ ran' = NoRuns
    /\ UNCHANGED <<jobMap, ejobs, clock, lifeVars>>

EveryWithName(interval, name) ==
    /\ CanCall
    /\ nextId \in Handles
    /\ LET h   == nextId
           old == jobMap[name]
           js  == IF old # Nil THEN Evict(jobs, old) ELSE jobs
           hp  == [heap EXCEPT ![h] = JobLocation(NewJob(interval), location)]
       IN  /\ jobMap' = [jobMap EXCEPT ![name] = h]
           /\ jobs' = InsertionSort(Append(js, h), hp)
           /\ heap' = Unreferenced(hp, jobs', jobMap', ejobs)
           /\ last' = Op("EveryWithName", h, name, old # Nil)
    /\ nextId' = nextId + 1
    /\ ran' = NoRuns
    /\ UNCHANGED <<ejobs, clock, lifeVars>>

\* An Emergency() that also registers the job in s.jobs.
Emergency_registered ==
    /\ CanCall
    /\ nextId \in Handles
    /\ heap' = [heap EXCEPT ![nextId] = JobLocation(NewJob(1), location)]
    /\ ejobs' = Append(ejobs, nextId)
    /\ jobs' = InsertionSort(Append(jobs, nextId), heap')
    /\ last' = Op("Emergency", nextId, "", TRUE)
    /\ nextId' = nextId + 1
    /\ ran' = NoRuns
    /\ UNCHANGED <<jobMap, clock, lifeVars>>

Emergency ==
    /\ CanCall
    /\ nextId \in Handles
    /\ heap' = [heap EXCEPT ![nextId] = JobLocation(NewJob(1), location)]
    /\ ejobs' = Append(ejobs, nextId)
    /\ last' = Op("Emergency", nextId, "", TRUE)
    /\ nextId' = nextId + 1
    /\ ran' = NoRuns
    /\ UNCHANGED <<jobs, jobMap, clock, lifeVars>>

RunPending ==
    /\ CanCall
    /\ LET r == runPending(clock)
       IN  /\ jobs' = r.jobs
           /\ ejobs' = r.ejobs
           /\ ran' = r.ran
           /\ heap' = Unreferenced(r.heap, r.jobs, jobMap, r.ejobs)
    /\ last' = Op("RunPending", Nil, "", TRUE)
    /\ UNCHANGED <<jobMap, nextId, clock, lifeVars>>

\* time.Sleep(d) after each job of RunAllWithDelay: the clock moves on and
\* the tickers fire meanwhile.
Slept(d, n) ==
    /\ clock' = clock + d * n
    /\ ticker' = [l \in Loops |->
                    IF d * n > 0 /\ l <= nLoops /\ ticker[l] = 0
                    THEN clock + 1 ELSE ticker[l]]

liveVars == <<isRunning, mutex, pc, loops, nLoops, ticked>>

RunAllWithDelay(d) ==
    /\ CanCall
    /\ LET r == runAllWithDelay(jobs, clock)
       IN  /\ jobs' = r.jobs
           /\ ran' = r.ran
           /\ heap' = r.heap
    /\ Slept(d, Len(jobs))
    /\ last' = Op("RunAllWithDelay", Nil, "", TRUE)
    /\ UNCHANGED <<jobMap, ejobs, nextId, liveVars, djobs>>

\* gocron.RunAllWithDelay(d): defaultScheduler.RunAllWithDelay(d), under the
\* default scheduler's own mutex.
gocron_RunAllWithDelay(d) ==
    /\ LET r == runAllWithDelay(djobs, clock)
       IN  /\ djobs' = r.jobs
           /\ ran' = r.ran
           /\ heap' = r.heap
    /\ Slept(d, Len(djobs))
    /\ UNCHANGED <<jobs, jobMap, ejobs, nextId, liveVars>>

\* s.RunAll() is RunAllWithDelay(0), the function of the package: it does not
\* take s.mutex.
RunAll ==
    /\ \E t \in Threads : pc[t] = "idle"
    /\ gocron_RunAllWithDelay(0)
    /\ last' = Op("RunAll", Nil, "", TRUE)

\* gocron.RunAll(): defaultScheduler.RunAll()
gocron_RunAll ==
    /\ \E t \in Threads : pc[t] = "idle"
    /\ gocron_RunAllWithDelay(0)
    /\ last' = Op("gocron.RunAll", Nil, "", TRUE)

\* gocron.Every(interval): defaultScheduler.Every(interval)
gocron_Every(interval) ==
    /\ \E t \in Threads : pc[t] = "idle"
    /\ nextId \in Handles
    /\ LET h  == nextId
           hp == [heap EXCEPT ![h] = JobLocation(NewJob(interval), "Local")]
       IN  /\ heap' = hp
           /\ djobs' = InsertionSort(Append(djobs, h), hp)
           /\ last' = Op("gocron.Every", h, "", TRUE)
    /\ nextId' = nextId + 1
    /\ ran' = NoRuns
    /\ UNCHANGED <<jobs, jobMap, ejobs, clock, lifeVars>>

NextRun ==
    /\ CanCall
    /\ IF Len(jobs) = 0
       THEN /\ last' = Op("NextRun", Nil, "", FALSE)
            /\ jobs' = jobs
       ELSE LET sorted == SortSort(jobs, heap)
            IN  /\ jobs' = sorted
                /\ last' = Op("NextRun", sorted[1], "", TRUE)
    /\ ran' = NoRuns
    /\ UNCHANGED <<jobMap, ejobs, heap, nextId, clock, lifeVars>>

Remove(j) ==
    /\ CanCall
    /\ LET i == IndexOf(jobs, j)
       IN  IF i # 0
           THEN /\ jobs' = RemoveAt(jobs, i)
                /\ last' = Op("Remove", j, "", TRUE)
           ELSE /\ jobs' = jobs
                /\ last' = Op("Remove", j, "", FALSE)
    /\ heap' = Unreferenced(heap, jobs', jobMap, ejobs)
    /\ ran' = NoRuns
    /\ UNCHANGED <<jobMap, ejobs, nextId, clock, lifeVars>>

RemoveWithName(name) ==
    /\ CanCall
    /\ LET dJob == jobMap[name]
           i    == IF dJob = Nil THEN 0 ELSE IndexOf(jobs, dJob)
       IN  IF i # 0
           THEN /\ jobs' = RemoveAt(jobs, i)
                /\ jobMap' = [jobMap EXCEPT ![name] = Nil]
                /\ last' = Op("RemoveWithName", dJob, name, TRUE)
           ELSE /\ UNCHANGED <<jobs, jobMap>>
                /\ last' = Op("RemoveWithName", dJob, name, FALSE)
    /\ heap' = Unreferenced(heap, jobs', jobMap', ejobs)
    /\ ran' = NoRuns
    /\ UNCHANGED <<ejobs, nextId, clock, lifeVars>>

\* The Job method a name-addressed or all-jobs operation calls.
JobCall(op, j, interval) ==
    CASE op = "UpdateIntervalWithName" -> JobUpdateInterval(j, interval)
      [] op \in {"PauseWithName", "PauseAll"} -> JobPause(j)
      [] op \in {"ResumeWithName", "ResumeAll"} -> JobResume(j)

\* A name-addressed operation that puts s.jobs back in interval order.
WithName_sorted(op, name, interval) ==
    /\ CanCall
    /\ LET h == jobMap[name]
       IN  IF h # Nil
           THEN /\ heap' = [heap EXCEPT ![h] = JobCall(op, heap[h], interval)]
                /\ last' = Op(op, h, name, TRUE)
           ELSE /\ heap' = heap
                /\ last' = Op(op, Nil, name, FALSE)
    /\ jobs' = InsertionSort(jobs, heap')
    /\ ran' = NoRuns
    /\ UNCHANGED <<jobMap, ejobs, nextId, clock, lifeVars>>

\* if job, ok := s.jobMap[name]; ok { job.<method>(); return true }; return false
WithName(op, name, interval) ==
    /\ CanCall
    /\ LET h == jobMap[name]
       IN  IF h # Nil
           THEN /\ heap' = [heap EXCEPT ![h] = JobCall(op, heap[h], interval)]
                /\ last' = Op(op, h, name, TRUE)
           ELSE /\ heap' = heap
                /\ last' = Op(op, Nil, name, FALSE)
    /\ ran' = NoRuns
    /\ UNCHANGED <<jobs, jobMap, ejobs, nextId, clock, lifeVars>>

UpdateIntervalWithName(name, interval) ==
    WithName("UpdateIntervalWithName", name, interval)

PauseWithName(name) == WithName("PauseWithName", name, 0)

ResumeWithName(name) == WithName("ResumeWithName", name, 0)

\* for _, v := range s.jobMap { v.<method>() }
NamedJobs == {jobMap[n] : n \in Names} \ {Nil}

ForAllNamed(op) ==
    /\ CanCall
    /\ heap' = [h \in Handles |->
                  IF h \in NamedJobs THEN JobCall(op, heap[h], 0) ELSE heap[h]]
    /\ last' = Op(op, Nil, "", TRUE)
    /\ ran' = NoRuns
    /\ UNCHANGED <<jobs, jobMap, ejobs, nextId, clock, lifeVars>>

PauseAll == ForAllNamed("PauseAll")

ResumeAll == ForAllNamed("ResumeAll")

Clear ==
    /\ CanCall
    /\ jobs' = <<>>
    /\ jobMap' = [n \in Names |-> Nil]
    /\ heap' = Unreferenced(heap, jobs', jobMap', ejobs)
    /\ last' = Op("Clear", Nil, "", TRUE)
    /\ ran' = NoRuns
    /\ UNCHANGED <<ejobs, nextId, clock, lifeVars>>

\* Time passes by one ticker period; every live ticker buffers one tick
\* (a time.Ticker drops ticks while its channel is full).
TimePasses ==
    /\ clock' = clock + 1
    /\ ticker' = [l \in Loops |->
                    IF l <= nLoops /\ ticker[l] = 0 THEN clock + 1 ELSE ticker[l]]
    /\ UNCHANGED <<jobs, jobMap, ejobs, heap, nextId, isRunning, mutex, pc,
                   loops, nLoops, ran, last, ticked>>

AdvanceClock == clock < MaxTime /\ TimePasses

\* ------------------------------------------------------------ Start, Stop, the loop
regVars == <<jobs, jobMap, ejobs, heap, nextId, clock, ran>>

\* Start() without the s.isRunning test: every call spawns a goroutine.
Start_always(t) ==
    /\ pc[t] = "idle"
    /\ mutex = Free
    /\ nLoops < MaxLoops
    /\ nLoops' = nLoops + 1
    /\ loops' = [loops EXCEPT ![nLoops + 1] =
                    [pc |-> "select", now |-> 0, starter |-> t]]
    /\ ticker' = [ticker EXCEPT ![nLoops + 1] = 0]
    /\ mutex' = t
    /\ pc' = [pc EXCEPT ![t] = "waitStarted"]
    /\ last' = Op("Start", nLoops + 1, "", TRUE)
    /\ UNCHANGED <<isRunning, ticked, regVars>>

\* Start(): Lock; return if s.isRunning; otherwise make the isStarted channel
\* and the ticker, spawn the goroutine and wait on <-isStarted, mutex held.
Start(t) ==
    /\ pc[t] = "idle"
    /\ mutex = Free
    /\ IF isRunning
       THEN /\ last' = Op("Start", Nil, "", FALSE)
            /\ UNCHANGED <<mutex, pc, loops, nLoops, ticker>>
       ELSE /\ nLoops < MaxLoops
            /\ nLoops' = nLoops + 1
            /\ loops' = [loops EXCEPT ![nLoops + 1] =
                            [pc |-> "select", now |-> 0, starter |-> t]]
            /\ ticker' = [ticker EXCEPT ![nLoops + 1] = 0]
            /\ mutex' = t
            /\ pc' = [pc EXCEPT ![t] = "waitStarted"]
            /\ last' = Op("Start", nLoops + 1, "", TRUE)
    /\ UNCHANGED <<isRunning, ticked, regVars>>

\* case now := <-ticker.C: the goroutine takes the buffered tick and reads
\* s.isRunning.
LoopTick(l) ==
    /\ loops[l].pc = "select"
    /\ ticker[l] # 0
    /\ loops' = [loops EXCEPT ![l].now = ticker[l],
                              ![l].pc = IF ~isRunning THEN "init" ELSE "runPending"]
    /\ ticker' = [ticker EXCEPT ![l] = 0]
    /\ UNCHANGED <<isRunning, mutex, pc, nLoops, ticked, last, regVars>>

\* The first tick initializing only the jobs that are not initialized yet.
InitAll_onlyUninit(hp, js, now) ==
    [h \in Handles |->
        IF h \in Range(js) /\ ~IsInit(hp[h]) THEN JobInit(hp[h], now) ELSE hp[h]]

\* for _, job := range s.jobs { job.init(now) }
InitAll(hp, js, now) ==
    [h \in Handles |-> IF h \in Range(js) THEN JobInit(hp[h], now) ELSE hp[h]]

LoopInit(l) ==
    /\ loops[l].pc = "init"
    /\ heap' = InitAll(heap, jobs, loops[l].now)
    /\ loops' = [loops EXCEPT ![l].pc = "setRunning"]
    /\ UNCHANGED <<jobs, jobMap, ejobs, nextId, clock, ran, last,
                   isRunning, mutex, pc, nLoops, ticker, ticked>>

\* s.isRunning = true
LoopSetRunning(l) ==
    /\ loops[l].pc = "setRunning"
    /\ isRunning' = TRUE
    /\ loops' = [loops EXCEPT ![l].pc = "sendStarted"]
    /\ UNCHANGED <<mutex, pc, nLoops, ticker, ticked, last, regVars>>

\* isStarted <- true meets <-isStarted: the channel is unbuffered and local
\* to the Start() call that spawned the goroutine.
IsStartedRendezvous(l) ==
    /\ loops[l].pc = "sendStarted"
    /\ pc[loops[l].starter] = "waitStarted"
    /\ loops' = [loops EXCEPT ![l].pc = "runPending"]
    /\ pc' = [pc EXCEPT ![loops[l].starter] = "startUnlock"]
    /\ UNCHANGED <<isRunning, mutex, nLoops, ticker, ticked, last, regVars>>

\* the deferred s.mutex.Unlock() of Start()
StartReturn(t) ==
    /\ pc[t] = "startUnlock"
    /\ mutex' = Free
    /\ pc' = [pc EXCEPT ![t] = "idle"]
    /\ UNCHANGED <<isRunning, loops, nLoops, ticker, ticked, last, regVars>>

\* s.runPending(now) called by the goroutine: it takes the mutex itself.
LoopRunPending(l) ==
    /\ loops[l].pc = "runPending"
    /\ mutex = Free
    /\ LET r == runPending(loops[l].now)
       IN  /\ jobs' = r.jobs
           /\ ejobs' = r.ejobs
           /\ ran' = r.ran
           /\ heap' = Unreferenced(r.heap, r.jobs, jobMap, r.ejobs)
    /\ loops' = [loops EXCEPT ![l].pc = "select"]
    /\ ticked' = ticked \cup {loops[l].now}
    /\ last' = Op("tick", l, "", TRUE)
    /\ UNCHANGED <<jobMap, nextId, clock, isRunning, mutex, pc, nLoops, ticker>>

\* Stop() without the s.isRunning test: it always sends the stop signal.
Stop_always(t) ==
    /\ pc[t] = "idle"
    /\ mutex = Free
    /\ mutex' = t
    /\ pc' = [pc EXCEPT ![t] = "stopSend"]
    /\ last' = Op("Stop", Nil, "", TRUE)
    /\ UNCHANGED <<isRunning, loops, nLoops, ticker, ticked, regVars>>

\* Stop(): Lock; if s.isRunning, go on to s.isStopped <- true, mutex held.
Stop(t) ==
    /\ pc[t] = "idle"
    /\ mutex = Free
    /\ IF isRunning
       THEN /\ mutex' = t
            /\ pc' = [pc EXCEPT ![t] = "stopSend"]
            /\ last' = Op("Stop", Nil, "", TRUE)
       ELSE /\ last' = Op("Stop", Nil, "", FALSE)
            /\ UNCHANGED <<mutex, pc>>
    /\ UNCHANGED <<isRunning, loops, nLoops, ticker, ticked, regVars>>

\* s.isStopped is one unbuffered channel used in both directions.  Senders:
\* Stop() at s.isStopped <- true and a goroutine at its confirmation.
\* Receivers: a goroutine in its select and Stop() at <-s.isStopped.
StopSenders ==
    {<<"thread", t>> : t \in {x \in Threads : pc[x] = "stopSend"}}
        \cup {<<"loop", l>> : l \in {x \in Loops : loops[x].pc = "sendAck"}}

StopReceivers ==
    {<<"thread", t>> : t \in {x \in Threads : pc[x] = "stopRecv"}}
        \cup {<<"loop", l>> : l \in {x \in Loops : loops[x].pc = "select"}}

\* Stop() returning once its signal is taken, without waiting for the
\* confirmation.
AfterSend_noWait(e, p) ==
    IF e[1] = "thread" THEN [p EXCEPT !.pc[e[2]] = "stopUnlock"]
    ELSE [p EXCEPT !.loops[e[2]].pc = "done"]

AfterSend(e, p) ==
    IF e[1] = "thread" THEN [p EXCEPT !.pc[e[2]] = "stopRecv"]
    ELSE [p EXCEPT !.loops[e[2]].pc = "done"]

AfterRecv(e, p) ==
    IF e[1] = "thread" THEN [p EXCEPT !.pc[e[2]] = "stopUnlock"]
    ELSE [p EXCEPT !.loops[e[2]].pc = "stopping"]

IsStoppedRendezvous(snd, rcv) ==
    /\ snd \in StopSenders
    /\ rcv \in StopReceivers
    /\ snd # rcv
    /\ LET p == AfterRecv(rcv, AfterSend(snd, [pc |-> pc, loops |-> loops]))
       IN  /\ pc' = p.pc
           /\ loops' = p.loops
    /\ UNCHANGED <<isRunning, mutex, nLoops, ticker, ticked, last, regVars>>

\* case <-s.isStopped: s.isRunning = false
LoopStopping(l) ==
    /\ loops[l].pc = "stopping"
    /\ isRunning' = FALSE
    /\ loops' = [loops EXCEPT ![l].pc = "sendAck"]
    /\ UNCHANGED <<mutex, pc, nLoops, ticker, ticked, last, regVars>>

\* the deferred s.mutex.Unlock() of Stop()
StopReturn(t) ==
    /\ pc[t] = "stopUnlock"
    /\ mutex' = Free
    /\ pc' = [pc EXCEPT ![t] = "idle"]
    /\ UNCHANGED <<isRunning, loops, nLoops, ticker, ticked, last, regVars>>

LifeEvery(interval) == nextId <= MaxLifeJobs /\ Every(interval)

LifeEveryWithName(interval, name) ==
    nextId <= MaxLifeJobs /\ EveryWithName(interval, name)

LifeAdvanceClock == clock < MaxLifeTime /\ TimePasses

\* ------------------------------------------------------------ the operations, step by step
\* IsRunning(): Lock; return s.isRunning
IsRunning ==
    /\ CanCall
    /\ last' = Op("IsRunning", Nil, "", isRunning)
    /\ ran' = NoRuns
    /\ UNCHANGED <<jobs, jobMap, ejobs, heap, nextId, clock, lifeVars>>

\* The public operations that take s.mutex around their whole body.
LockedOps ==
    {"Every", "EveryWithName", "Emergency", "Remove", "RemoveWithName",
     "UpdateIntervalWithName", "PauseWithName", "PauseAll", "ResumeWithName",
     "ResumeAll", "Clear", "NextRun", "IsRunning"}

stepVars == <<jobs, jobMap, ejobs, heap, nextId, isRunning, pc, loops, nLoops,
              ticker, clock, ran, last, pauseLog, ticked, location, sortImpl,
              order, djobs, tick>>

\* A thread calls a public operation.  RunPending() evaluates time.Now()
\* before runPending locks; Location() locks nothing and is at its body at
\* once; every other operation ("locked": which one shows when Lock()
\* returns) is at its s.mutex.Lock().
Issue(t, op) ==
    /\ pc[t] = "idle"
    /\ call[t] = NoCall
    /\ call' = [call EXCEPT ![t] =
                  [op  |-> op,
                   at  |-> IF op = "Location" THEN "body" ELSE "lock",
                   now |-> IF op = "RunPending" THEN clock ELSE 0]]
    /\ UNCHANGED <<mutex, stepVars>>

\* An operation whose body is entered without s.mutex.Lock().
Acquire_noMutex(t, op) ==
    /\ call[t].at = "lock"
    /\ call[t].op = "locked"
    /\ mutex = Free
    /\ mutex' = mutex
    /\ call' = [call EXCEPT ![t] = [op |-> op, at |-> "body", now |-> 0]]
    /\ UNCHANGED stepVars

\* s.mutex.Lock() returns to the caller of the locked operation op.
Acquire(t, op) ==
    /\ call[t].at = "lock"
    /\ call[t].op = "locked"
    /\ mutex = Free
    /\ mutex' = t
    /\ call' = [call EXCEPT ![t] = [op |-> op, at |-> "body", now |-> 0]]
    /\ UNCHANGED stepVars

\* The body of the operation op is run by the thread that called it.
InBody(op) ==
    \E t \in Threads :
        /\ call[t].op = op
        /\ call[t].at = "body"
        /\ call' = [call EXCEPT ![t].at = "unlock"]

\* the deferred s.mutex.Unlock() of a locked operation
Release(t) ==
    /\ call[t].at = "unlock"
    /\ mutex' = Free
    /\ call' = [call EXCEPT ![t] = NoCall]
    /\ UNCHANGED stepVars

\* Clear(), first statement: s.jobs = []*Job{}
ClearJobs(t) ==
    /\ call[t].op = "Clear"
    /\ call[t].at = "body"
    /\ jobs' = <<>>
    /\ call' = [call EXCEPT ![t].at = "half"]
    /\ UNCHANGED <<jobMap, ejobs, heap, nextId, isRunning, mutex, pc, loops,
                   nLoops, ticker, clock, ran, last, pauseLog, ticked,
                   location, sortImpl, order, djobs, tick>>

\* Clear(), second statement: s.jobMap = make(map[string]*Job)
ClearMap(t) ==
    /\ call[t].op = "Clear"
    /\ call[t].at = "half"
    /\ jobMap' = [n \in Names |-> Nil]
    /\ heap' = Unreferenced(heap, jobs, jobMap', ejobs)
    /\ last' = Op("Clear", Nil, "", TRUE)
    /\ ran' = NoRuns
    /\ call' = [call EXCEPT ![t].at = "unlock"]
    /\ UNCHANGED <<jobs, ejobs, nextId, isRunning, mutex, pc, loops, nLoops,
                   ticker, clock, pauseLog, ticked, location, sortImpl, order,
                   djobs, tick>>

\* Location(location): s.location = location, s.mutex not taken.
Location(t, loc) ==
    /\ call[t].op = "Location"
    /\ call[t].at = "body"
    /\ location' = loc
    /\ call' = [call EXCEPT ![t] = NoCall]
    /\ last' = Op("Location", Nil, "", TRUE)
    /\ UNCHANGED <<jobs, jobMap, ejobs, heap, nextId, isRunning, mutex, pc,
                   loops, nLoops, ticker, clock, ran, pauseLog, ticked,
                   sortImpl, order, djobs, tick>>

\* runPending(now) entered without s.mutex.Lock().
TickLock_noMutex(a, now) ==
    /\ mutex = Free
    /\ tick = NoTick
    /\ mutex' = mutex
    /\ tick' = [owner |-> a, now |-> now, k |-> 0]
    /\ ran' = NoRuns
    /\ order' = <<>>

\* runPending(now): s.mutex.Lock() returns to a, a caller thread or a
\* goroutine of Start().
TickLock(a, now) ==
    /\ mutex = Free
    /\ tick = NoTick
    /\ mutex' = a
    /\ tick' = [owner |-> a, now |-> now, k |-> 0]
    /\ ran' = NoRuns
    /\ order' = <<>>

\* RunPending(): s.runPending(time.Now())
RunPendingLock(t) ==
    /\ call[t].op = "RunPending"
    /\ call[t].at = "lock"
    /\ TickLock(t, call[t].now)
    /\ call' = [call EXCEPT ![t].at = "body"]
    /\ UNCHANGED <<jobs, jobMap, ejobs, heap, nextId, isRunning, pc, loops,
                   nLoops, ticker, clock, last, pauseLog, ticked, location,
                   sortImpl, djobs>>

\* s.runPending(now) of the goroutine
LoopLock(l) ==
    /\ loops[l].pc = "runPending"
    /\ TickLock(Goroutine(l), loops[l].now)
    /\ loops' = [loops EXCEPT ![l].pc = "ticking"]
    /\ UNCHANGED <<jobs, jobMap, ejobs, heap, nextId, isRunning, pc, nLoops,
                   ticker, clock, last, pauseLog, ticked, location, sortImpl,
                   djobs, call>>

\* for _, job := range s.ejobs { job.run() }; s.ejobs = []*Job{}; sort.Sort(s)
TickDrain ==
    /\ tick.owner # Free
    /\ tick.k = 0
    /\ LET e == RunEach(heap, ran, order, ejobs, 1)
       IN  /\ ran' = e.ran
           /\ order' = e.order
           /\ jobs' = SortSort(jobs, e.heap)
           /\ heap' = Unreferenced(e.heap, jobs, jobMap, <<>>)
    /\ ejobs' = <<>>
    /\ tick' = [tick EXCEPT !.k = 1]
    /\ UNCHANGED <<jobMap, nextId, isRunning, mutex, pc, loops, nLoops, ticker,
                   clock, last, pauseLog, ticked, location, sortImpl, djobs,
                   call>>

\* One round of for _, job := range s.jobs: init if needed, run if due.
TickJob ==
    /\ tick.owner # Free
    /\ tick.k \in 1..Len(jobs)
    /\ LET h == jobs[tick.k]
           r == RunIfDue(InitIfNeeded(heap[h], tick.now), tick.now)
       IN  /\ heap' = [heap EXCEPT ![h] = r.job]
           /\ ran' = [ran EXCEPT ![h] = ran[h] + r.calls]
           /\ order' = IF r.calls > 0 THEN Append(order, h) ELSE order
    /\ tick' = [tick EXCEPT !.k = tick.k + 1]
    /\ UNCHANGED <<jobs, jobMap, ejobs, nextId, isRunning, mutex, pc, loops,
                   nLoops, ticker, clock, last, pauseLog, ticked, location,
                   sortImpl, djobs, call>>

\* The range over s.jobs is over: the deferred s.mutex.Unlock() of runPending.
TickUnlock ==
    /\ tick.owner # Free
    /\ tick.k > Len(jobs)
    /\ mutex' = Free
    /\ tick' = NoTick

\* RunPending() returns to its caller.
RunPendingReturn(t) ==
    /\ tick.owner = t
    /\ TickUnlock
    /\ call' = [call EXCEPT ![t] = NoCall]
    /\ last' = Op("RunPending", Nil, "", TRUE)
    /\ UNCHANGED <<jobs, jobMap, ejobs, heap, nextId, isRunning, pc, loops,
                   nLoops, ticker, clock, ran, pauseLog, ticked, location,
                   sortImpl, order, djobs>>

\* s.runPending(now) returns to the goroutine, which goes back to its select.
LoopUnlock(l) ==
    /\ tick.owner = Goroutine(l)
    /\ TickUnlock
    /\ loops' = [loops EXCEPT ![l].pc = "select"]
    /\ ticked' = ticked \cup {tick.now}
    /\ last' = Op("tick", l, "", TRUE)
    /\ UNCHANGED <<jobs, jobMap, ejobs, heap, nextId, isRunning, pc, nLoops,
                   ticker, clock, ran, pauseLog, location, sortImpl, order,
                   djobs, call>>

\* Start() and Stop() are called by a thread inside no other operation.
Outside(t) == call[t] = NoCall

\* ------------------------------------------------------------ specification
\* NewScheduler(), whatever sort.Sort the program is built with.
InitScheduler ==
    /\ jobs = <<>>
    /\ jobMap = [n \in Names |-> Nil]
    /\ ejobs = <<>>
    /\ heap = [h \in Handles |-> NewJob(0)]
    /\ nextId = 1
    /\ isRunning = FALSE
    /\ mutex = Free
    /\ pc = [t \in Threads |-> "idle"]
    /\ loops = [l \in Loops |-> [pc |-> "none", now |-> 0, starter |-> 0]]
    /\ nLoops = 0
    /\ ticker = [l \in Loops |-> 0]
    /\ clock = 1
    /\ ran = NoRuns
    /\ last = Op("NewScheduler", Nil, "", TRUE)
    /\ pauseLog = [h \in Handles |-> "no"]
    /\ ticked = {}
    /\ location = "Local"
    /\ order = <<>>
    /\ djobs = <<>>
    /\ call = [t \in Threads |-> NoCall]
    /\ tick = NoTick

\* With at most six jobs in the registry the two implementations of
\* sort.Sort make the same swaps: one of them stands for both.
Init == InitScheduler /\ sortImpl = "pdqsort"

\* Spec: the public registry operations and the passing of time.  The pause
\* log is kept by SpecPause only.
Quiet == UNCHANGED <<pauseLog, location, sortImpl, order, djobs, call, tick>>

\* newJob() has handles left for Spec and SpecPause.
CanAllocate == nextId <= MaxJobs

Next ==
    \/ Quiet /\ \E i \in Intervals : CanAllocate /\ Every(i)
    \/ Quiet /\ \E i \in Intervals, n \in Names : CanAllocate /\ EveryWithName(i, n)
    \/ Quiet /\ CanAllocate /\ Emergency
    \/ Quiet /\ RunPending
    \/ Quiet /\ NextRun
    \/ Quiet /\ \E j \in Allocated : Remove(j)
    \/ Quiet /\ \E n \in Names : RemoveWithName(n)
    \/ Quiet /\ \E n \in Names, i \in Intervals : UpdateIntervalWithName(n, i)
    \/ Quiet /\ \E n \in Names : PauseWithName(n)
    \/ Quiet /\ \E n \in Names : ResumeWithName(n)
    \/ Quiet /\ PauseAll
    \/ Quiet /\ ResumeAll
    \/ Quiet /\ Clear
    \/ Quiet /\ AdvanceClock

Spec == Init /\ [][Next]_vars

\* SpecPause: the same operations, with the pause log kept.  An operation that
\* drops the last reference to a job drops its log entry with it.
Logged(pl) ==
    /\ pauseLog' = Forgotten(pl, jobs', jobMap', ejobs')
    /\ UNCHANGED <<location, sortImpl, order, djobs, call, tick>>

Same == Logged(pauseLog)

PausedByName(n) ==
    Logged(IF jobMap[n] # Nil THEN [pauseLog EXCEPT ![jobMap[n]] = "paused"]
           ELSE pauseLog)

ResumedByName(n) ==
    Logged(IF jobMap[n] # Nil THEN [pauseLog EXCEPT ![jobMap[n]] = "no"]
           ELSE pauseLog)

ResumedAll ==
    Logged([h \in Handles |->
              IF h \in NamedJobs /\ pauseLog[h] = "paused" THEN "resumedAll"
              ELSE pauseLog[h]])

NextPause ==
    \/ \E i \in Intervals : CanAllocate /\ Every(i) /\ Same
    \/ \E i \in Intervals, n \in Names : CanAllocate /\ EveryWithName(i, n) /\ Same
    \/ CanAllocate /\ Emergency /\ Same
    \/ RunPending /\ Same
    \/ NextRun /\ Same
    \/ \E j \in Allocated : Remove(j) /\ Same
    \/ \E n \in Names : RemoveWithName(n) /\ Same
    \/ \E n \in Names, i \in Intervals : UpdateIntervalWithName(n, i) /\ Same
    \/ \E n \in Names : PauseWithName(n) /\ PausedByName(n)
    \/ \E n \in Names : ResumeWithName(n) /\ ResumedByName(n)
    \/ PauseAll /\ Same
    \/ ResumeAll /\ ResumedAll
    \/ Clear /\ Same
    \/ AdvanceClock /\ Same

SpecPause == Init /\ [][NextPause]_vars

\* SpecMany: a registry of up to MaxManyJobs jobs, built with either
\* sort.Sort, with the order in which a tick runs the jobs kept.
\* The jobs of SpecMany are all registered with the same interval.
ManyIntervals == {0}

InitMany == InitScheduler /\ sortImpl \in SortImpls

QuietMany ==
    /\ order' = <<>>
    /\ UNCHANGED <<pauseLog, location, sortImpl, djobs, call, tick>>

Ordered ==
    /\ order' = runPending(clock).order
    /\ UNCHANGED <<pauseLog, location, sortImpl, djobs, call, tick>>

NextMany ==
    \/ QuietMany /\ \E i \in ManyIntervals : Len(jobs) < MaxManyJobs /\ Every(i)
    \/ QuietMany /\ nextId - 1 - Len(jobs) < MaxManyEmergency /\ Emergency
    \/ Ordered /\ RunPending
    \/ QuietMany /\ NextRun
    \/ QuietMany /\ AdvanceClock

SpecMany == InitMany /\ [][NextMany]_vars

\* SpecTwo: a scheduler of its own next to the default scheduler of the
\* package, each with its jobs.
Delays == {0, MaxDelay}

NotAhead(js) == \A h \in Range(js) : heap[h].nextRun < MaxNextRun

QuietInstance == UNCHANGED <<pauseLog, location, sortImpl, order, call, tick>>

NextTwo ==
    \/ Quiet /\ \E i \in Intervals : CanAllocate /\ Every(i)
    \/ Quiet /\ RunPending
    \/ Quiet /\ \E d \in Delays :
                    /\ clock + d * Len(jobs) <= MaxTime
                    /\ NotAhead(jobs)
                    /\ RunAllWithDelay(d)
    \/ Quiet /\ CanAllocate /\ Emergency
    \/ QuietInstance /\ NotAhead(djobs) /\ RunAll
    \/ QuietInstance /\ \E i \in Intervals : CanAllocate /\ gocron_Every(i)
    \/ QuietInstance /\ NotAhead(djobs) /\ gocron_RunAll
    \/ Quiet /\ AdvanceClock

SpecTwo == Init /\ [][NextTwo]_vars

\* SpecLife: Start(), Stop() and the goroutines, with jobs registered and run
\* by hand meanwhile.
Endpoints == ({"thread"} \X Threads) \cup ({"loop"} \X Loops)

NextLife ==
    \/ Quiet /\ \E t \in Threads : Start(t)
    \/ Quiet /\ \E t \in Threads : StartReturn(t)
    \/ Quiet /\ \E t \in Threads : Stop(t)
    \/ Quiet /\ \E t \in Threads : StopReturn(t)
    \/ Quiet /\ \E l \in Loops : LoopTick(l)
    \/ Quiet /\ \E l \in Loops : LoopInit(l)
    \/ Quiet /\ \E l \in Loops : LoopSetRunning(l)
    \/ Quiet /\ \E l \in Loops : IsStartedRendezvous(l)
    \/ Quiet /\ \E l \in Loops : LoopRunPending(l)
    \/ Quiet /\ \E l \in Loops : LoopStopping(l)
    \/ Quiet /\ \E snd \in Endpoints, rcv \in Endpoints : IsStoppedRendezvous(snd, rcv)
    \/ Quiet /\ \E i \in Intervals : LifeEvery(i)
    \/ Quiet /\ \E i \in Intervals, n \in Names : LifeEveryWithName(i, n)
    \/ Quiet /\ \E n \in Names : PauseWithName(n)
    \/ Quiet /\ \E n \in Names : ResumeWithName(n)
    \/ Quiet /\ RunPending
    \/ Quiet /\ LifeAdvanceClock

SpecLife == Init /\ [][NextLife]_vars

\* The thread that drives the scheduler in SpecCycle, SpecSteps and SpecRace.
Driver == 1
\* The intervals of the jobs of SpecCycle, SpecSteps and SpecRace.
StepIntervals == {1}

\* SpecCycle: Start() and Stop() called by the driver, and the goroutines,
\* with one job registered meanwhile, under fair scheduling: as long as a
\* thread inside Start() or Stop(), a goroutine or a rendezvous can take a
\* step, one of them does
\* (no behaviour of SpecCycle takes such steps for ever, so none of them is
\* passed over for ever); time passes, up to the last hour of the clock;
\* nothing obliges a caller to call.
NextCycle ==
    \/ Quiet /\ Start(Driver)
    \/ Quiet /\ StartReturn(Driver)
    \/ Quiet /\ Stop(Driver)
    \/ Quiet /\ StopReturn(Driver)
    \/ Quiet /\ \E l \in Loops : LoopTick(l)
    \/ Quiet /\ \E l \in Loops : LoopInit(l)
    \/ Quiet /\ \E l \in Loops : LoopSetRunning(l)
    \/ Quiet /\ \E l \in Loops : IsStartedRendezvous(l)
    \/ Quiet /\ \E l \in Loops : LoopRunPending(l)
    \/ Quiet /\ \E l \in Loops : LoopStopping(l)
    \/ Quiet /\ \E snd \in Endpoints, rcv \in Endpoints : IsStoppedRendezvous(snd, rcv)
    \/ Quiet /\ \E i \in StepIntervals : Len(jobs) = 0 /\ LifeEvery(i)
    \/ Quiet /\ LifeAdvanceClock

\* The steps that a thread inside Start() or Stop(), or a goroutine, takes
\* by itself.
CycleProgress ==
    \/ \E t \in Threads : StartReturn(t) \/ StopReturn(t)
    \/ \E l \in Loops :
          \/ LoopTick(l)
          \/ LoopInit(l)
          \/ LoopSetRunning(l)
          \/ IsStartedRendezvous(l)
          \/ LoopRunPending(l)
          \/ LoopStopping(l)
    \/ \E snd \in Endpoints, rcv \in Endpoints : IsStoppedRendezvous(snd, rcv)

CycleFairness ==
    /\ WF_vars(Quiet /\ LifeAdvanceClock)
    /\ WF_vars(Quiet /\ CycleProgress)

SpecCycle == Init /\ [][NextCycle]_vars /\ CycleFairness

\* SpecSteps: every operation in steps, so that what s.mutex excludes is
\* excluded by s.mutex.  Thread 1 drives the scheduler (Start, Stop,
\* RunPending); the other threads are its clients and call the registry
\* operations and the queries.  s.location stays time.Local.
OpsOf(t) == IF t = Driver THEN {"RunPending"} ELSE {"locked"}

StepQuiet == UNCHANGED <<pauseLog, location, sortImpl, order, djobs, tick>>

StepAllocate == nextId <= MaxStepJobs

\* The steps of runPending, of Start(), of Stop() and of the goroutine.
NextDriver ==
    \/ \E t \in Threads : RunPendingLock(t)
    \/ TickDrain
    \/ TickJob
    \/ \E t \in Threads : RunPendingReturn(t)
    \/ Quiet /\ Outside(Driver) /\ Start(Driver)
    \/ Quiet /\ \E l \in Loops : LoopTick(l)
    \/ Quiet /\ \E l \in Loops : LoopInit(l)
    \/ Quiet /\ \E l \in Loops : LoopSetRunning(l)
    \/ Quiet /\ \E l \in Loops : IsStartedRendezvous(l)
    \/ Quiet /\ StartReturn(Driver)
    \/ \E l \in Loops : LoopLock(l)
    \/ \E l \in Loops : LoopUnlock(l)
    \/ Quiet /\ Outside(Driver) /\ Stop(Driver)
    \/ Quiet /\ \E snd \in Endpoints, rcv \in Endpoints :
                   IsStoppedRendezvous(snd, rcv)
    \/ Quiet /\ \E l \in Loops : LoopStopping(l)
    \/ Quiet /\ StopReturn(Driver)
    \/ Quiet /\ AdvanceClock

\* The bodies of the operations that read s.location and of IsRunning, and
\* the two statements of Clear.
NextCreate ==
    \/ StepQuiet /\ InBody("Every") /\ StepAllocate
          /\ \E i \in StepIntervals : Every(i)
    \/ StepQuiet /\ InBody("EveryWithName") /\ StepAllocate
          /\ \E i \in StepIntervals, n \in Names : EveryWithName(i, n)
    \/ StepQuiet /\ InBody("Emergency") /\ StepAllocate /\ Emergency
    \/ \E t \in Threads : ClearJobs(t)
    \/ \E t \in Threads : ClearMap(t)
    \/ StepQuiet /\ InBody("IsRunning") /\ IsRunning

NextSteps ==
    \/ \E t \in Threads : \E op \in OpsOf(t) : Issue(t, op)
    \/ \E t \in Threads : \E op \in LockedOps : Acquire(t, op)
    \/ \E t \in Threads : Release(t)
    \/ NextCreate
    \/ StepQuiet /\ InBody("Remove") /\ \E j \in Allocated : Remove(j)
    \/ StepQuiet /\ InBody("RemoveWithName") /\ \E n \in Names : RemoveWithName(n)
    \/ StepQuiet /\ InBody("UpdateIntervalWithName")
          /\ \E n \in Names, i \in Intervals : UpdateIntervalWithName(n, i)
    \/ StepQuiet /\ InBody("PauseWithName") /\ \E n \in Names : PauseWithName(n)
    \/ StepQuiet /\ InBody("PauseAll") /\ PauseAll
    \/ StepQuiet /\ InBody("ResumeWithName") /\ \E n \in Names : ResumeWithName(n)
    \/ StepQuiet /\ InBody("ResumeAll") /\ ResumeAll
    \/ StepQuiet /\ InBody("NextRun") /\ NextRun
    \/ NextDriver

SpecSteps == Init /\ [][NextSteps]_vars

\* SpecRace: SpecSteps with Location() called by the driver, and the clients
\* calling the operations that read s.location, IsRunning and Clear.
RaceOps == {"Every", "EveryWithName", "Emergency", "Clear", "IsRunning"}

NextRace ==
    \/ \E t \in Threads : \E op \in OpsOf(t) : Issue(t, op)
    \/ Issue(Driver, "Location")
    \/ \E t \in Threads : \E loc \in Locations : Location(t, loc)
    \/ \E t \in Threads : \E op \in RaceOps : Acquire(t, op)
    \/ \E t \in Threads : Release(t)
    \/ NextCreate
    \/ NextDriver

SpecRace == Init /\ [][NextRace]_vars

\* ================================================================ claims
SortedByInterval(s, hp) ==
    \A i, k \in 1..Len(s) : i < k => hp[s[i]].interval <= hp[s[k]].interval

\* The seven Every(i) calls of the repository's test, on a fresh scheduler.
ExampleIntervals == <<3, 2, 5, 1, 1, 500, 10>>

ExampleHeap == [h \in 1..Len(ExampleIntervals) |-> NewJob(ExampleIntervals[h])]

RECURSIVE ExampleEvery(_, _)
ExampleEvery(s, h) ==
    IF h > Len(ExampleIntervals) THEN s
    ELSE ExampleEvery(InsertionSort(Append(s, h), ExampleHeap), h + 1)

ExampleResult ==
    LET s == ExampleEvery(<<>>, 1)
    IN  [i \in 1..Len(s) |-> ExampleHeap[s[i]].interval]

\* C1: right after any Every or EveryWithName the jobs sequence is sorted
\* ascending by interval, whatever preceded the call (removals, interval
\* updates, NextRun and ticks reorder or unsort the sequence in between);
\* and the intervals 3,2,5,1,1,500,10 inserted in turn read back as
\* 1,1,2,3,5,10,500.
C1_SortedAfterInsert ==
    /\ last.op \in {"Every", "EveryWithName"} => SortedByInterval(jobs, heap)
    /\ ExampleResult = <<1, 1, 2, 3, 5, 10, 500>>

\* An insertion into a sequence whose order had been disturbed: of three jobs
\* the new one landed in the middle, and the job created last of the other two
\* stands first.
C1_Witness ==
    /\ last.op = "Every"
    /\ Len(jobs) = 3
    /\ jobs[2] = last.h
    /\ jobs[1] > jobs[3]
    /\ heap[jobs[1]].interval < heap[jobs[3]].interval

\* C2: a name maps to a handle only if that handle is in the jobs sequence.
C2_NameIndexConsistent ==
    \A n \in Names : jobMap[n] # Nil => jobMap[n] \in Range(jobs)

\* C3: EveryWithName(i2, name) on a name that already indexes a job leaves the
\* registry length as it was, with the new job, of interval i2, the one and
\* only job under the name, and the old one gone from the sequence.
C3_NameReplace ==
    [][\A i \in Intervals, n \in Names :
          (last'.op = "EveryWithName" /\ EveryWithName(i, n) /\ jobMap[n] # Nil) =>
              /\ Len(jobs') = Len(jobs)
              /\ jobMap[n] \notin Range(jobs')
              /\ jobMap'[n] \in Range(jobs')
              /\ heap'[jobMap'[n]].interval = i]_vars

\* The same statement for a name whose job is still in the sequence.
C3_NameReplaceLive ==
    [][\A i \in Intervals, n \in Names :
          (last'.op = "EveryWithName" /\ EveryWithName(i, n)
              /\ jobMap[n] \in Range(jobs)) =>
              /\ Len(jobs') = Len(jobs)
              /\ jobMap[n] \notin Range(jobs')
              /\ jobMap'[n] \in Range(jobs')
              /\ heap'[jobMap'[n]].interval = i]_vars

Without(s, h) == SelectSeq(s, LAMBDA x : x # h)

\* C4: Remove(handle) returns true exactly when the handle is in the jobs
\* sequence; then the sequence is the old one without the handle, in the old
\* order and one shorter; when it returns false the sequence is unchanged.
C4_RemoveCorrect ==
    [][\A j \in Handles :
          (last'.op = "Remove" /\ Remove(j)) =>
              /\ last'.ret = (j \in Range(jobs))
              /\ j \in Range(jobs) =>
                    /\ Len(jobs') = Len(jobs) - 1
                    /\ j \notin Range(jobs')
                    /\ jobs' = Without(jobs, j)
              /\ j \notin Range(jobs) => jobs' = jobs]_vars

\* The middle one of three jobs has just been removed.
C4_Witness ==
    /\ last.op = "Remove"
    /\ last.ret
    /\ Len(jobs) = 2
    /\ last.h \notin Range(jobs)
    /\ jobs[1] < last.h
    /\ last.h < jobs[2]
    /\ heap[jobs[1]].interval < heap[jobs[2]].interval

\* ---------------------------------------------------------------- lifecycle
\* The goroutines that have been spawned and have not returned.
LiveLoops == {l \in Loops : loops[l].pc \notin {"none", "done"}}

\* Every job of the registry carries the lastRun/nextRun that init gives it
\* for the tick that goroutine l has taken.
Anchored(l) ==
    \A h \in Range(jobs) :
        /\ heap[h].init
        /\ heap[h].lastRun = loops[l].now
        /\ heap[h].nextRun = loops[l].now + heap[h].interval

otherThanLast == <<jobs, jobMap, ejobs, heap, nextId, isRunning, mutex, pc,
                   loops, nLoops, ticker, clock, ran, ticked>>

\* C5: when Start() on a stopped scheduler returns, IsRunning() is true and
\* every job of the registry has the lastRun/nextRun of the first tick of the
\* goroutine it spawned; and the running flag turns true only in a step taken
\* after that goroutine has initialized every job against its tick.
C5_StartReturnsInitialized ==
    /\ [](\A t \in Threads :
            pc[t] = "startUnlock" =>
                /\ isRunning
                /\ \E l \in Loops : /\ loops[l].starter = t
                                    /\ loops[l].pc = "runPending"
                                    /\ Anchored(l))
    /\ [][(~isRunning /\ isRunning') =>
              \E l \in Loops : /\ loops[l].pc = "setRunning"
                               /\ Anchored(l)
                               /\ UNCHANGED <<jobs, heap>>]_vars

\* A second Start() is about to return, with two jobs that the first
\* goroutine had anchored to an earlier tick.
C5_Witness ==
    \E t \in Threads :
        /\ pc[t] = "startUnlock"
        /\ nLoops = 2
        /\ Len(jobs) = 2
        /\ ticked # {}

\* C6: Start() on a running scheduler changes nothing and spawns nothing; at
\* most one goroutine is alive at any time; and no tick timestamp is handed to
\* runPending by a goroutine twice.
C6_StartIdempotent ==
    /\ [](Cardinality(LiveLoops) <= 1)
    /\ [][\A t \in Threads : (isRunning /\ Start(t)) => UNCHANGED otherThanLast]_vars
    /\ [][\A l \in Loops : LoopRunPending(l) => loops[l].now \notin ticked]_vars

\* Start() has been called on a running scheduler whose goroutine has ticked.
C6_Witness ==
    /\ last.op = "Start"
    /\ ~last.ret
    /\ isRunning
    /\ Cardinality(LiveLoops) = 1
    /\ ticked # {}

\* C7: when Stop() on a running scheduler returns, the running flag is false
\* and the goroutine has taken the signal, confirmed it and is past every
\* tick; a goroutine runs jobs only while the flag is true and nobody holds
\* the mutex; and when Start() spawns a goroutine no earlier one is alive.
C7_StopHandshake ==
    /\ [](\A t \in Threads :
            pc[t] = "stopUnlock" => /\ ~isRunning
                                    /\ LiveLoops = {}
                                    /\ mutex = t)
    /\ [][\A l \in Loops : LoopRunPending(l) => isRunning /\ mutex = Free]_vars
    /\ [][\A t \in Threads : (~isRunning /\ Start(t)) => LiveLoops = {}]_vars

\* Stop() is about to return from a scheduler whose goroutine had run a tick.
C7_Witness ==
    \E t \in Threads :
        /\ pc[t] = "stopUnlock"
        /\ ticked # {}
        /\ Len(jobs) > 0

\* C8: Stop() on a scheduler that is not running returns at once: the caller
\* is not left waiting, no signal is sent, the mutex is free again and nothing
\* of the scheduler has changed.
C8_StopWhenStopped ==
    [][\A t \in Threads :
          (~isRunning /\ Stop(t)) =>
              /\ UNCHANGED otherThanLast
              /\ pc'[t] = "idle"
              /\ mutex' = Free
              /\ StopSenders' = StopSenders]_vars

\* Stop() has been called on a scheduler that had been started and stopped.
C8_Witness ==
    /\ last.op = "Stop"
    /\ ~last.ret
    /\ ~isRunning
    /\ nLoops >= 1
    /\ LiveLoops = {}
    /\ mutex = Free

\* ---------------------------------------------------------------- ticks
\* Job h as a tick at now finds it once the tick has initialized it.
AtTick(h, now) ==
    IF heap[h].init THEN heap[h]
    ELSE [heap[h] EXCEPT !.init = TRUE, !.lastRun = now,
                         !.nextRun = now + heap[h].interval]

DueAtTick(h, now) == AtTick(h, now).enabled /\ now >= AtTick(h, now).nextRun

\* What one tick at now does to the jobs of the registry.
TickOutcome(now) ==
    \A h \in Range(jobs) :
        /\ heap'[h].init
        /\ ~heap[h].init /\ ~DueAtTick(h, now) => heap'[h] = AtTick(h, now)
        /\ heap[h].init /\ ~DueAtTick(h, now) => heap'[h] = heap[h]
        /\ ran'[h] = IF DueAtTick(h, now) THEN 1 ELSE 0

\* C9: a tick at now, of the goroutine or of RunPending(), initializes against
\* now every registry job that is not initialized, then invokes exactly once
\* each registry job whose shouldRun(now) is true and invokes no registry job
\* whose shouldRun(now) is false.
C9_TickRunsDueJobsOnce ==
    [][/\ (last'.op = "RunPending" /\ RunPending) => TickOutcome(clock)
       /\ \A l \in Loops :
            (last'.op = "tick" /\ LoopRunPending(l)) => TickOutcome(loops[l].now)]_vars

\* A tick of the goroutine has met two jobs, one due that it ran once and one
\* not due that it left alone, after an earlier tick.
C9_Witness ==
    /\ last.op = "tick"
    /\ Cardinality(ticked) >= 2
    /\ \E g, h \in Range(jobs) :
        /\ ran[g] = 1
        /\ ran[h] = 0
        /\ heap[h].init
        /\ heap[h].enabled
        /\ heap[h].nextRun > clock

\* ---------------------------------------------------------------- pause
\* A tick of RunPending() is being taken.
Ticking == last'.op = "RunPending" /\ RunPending

\* C10 as stated: a job paused by name is invoked by no tick until
\* ResumeWithName(name) is called for it.
C10_PausedUntilResumeWithName ==
    [][Ticking => \A h \in Range(jobs) : pauseLog[h] # "no" => ran'[h] = 0]_vars

\* C10: a job paused with PauseWithName(name) is invoked by no tick, due or
\* not, until ResumeWithName(name) or ResumeAll() is called; the tick that
\* follows ResumeWithName(name), with the job due, invokes it once; and
\* PauseWithName and ResumeWithName leave the sequence and the name index
\* as they were.
C10_PauseSuppresses ==
    /\ [][Ticking => \A h \in Range(jobs) : pauseLog[h] = "paused" => ran'[h] = 0]_vars
    /\ [][(Ticking /\ last.op = "ResumeWithName" /\ last.ret
                   /\ last.h \in Range(jobs) /\ DueAtTick(last.h, clock))
             => ran'[last.h] = 1]_vars
    /\ [][\A n \in Names :
            (last'.op \in {"PauseWithName", "ResumeWithName"}
                /\ (PauseWithName(n) \/ ResumeWithName(n)))
             => UNCHANGED <<jobs, jobMap>>]_vars

\* A tick has passed over a job paused by name whose due time had come.
C10_Witness ==
    /\ last.op = "RunPending"
    /\ \E h \in Range(jobs) :
        /\ pauseLog[h] = "paused"
        /\ heap[h].init
        /\ heap[h].interval > 0
        /\ clock >= heap[h].nextRun
        /\ ran[h] = 0

\* ---------------------------------------------------------------- all jobs
\* C11: after PauseAll() every job of the sequence, named or not, has its
\* enabled flag off; after ResumeAll() every job of the sequence has it on.
C11_PauseAllDisablesAll ==
    /\ last.op = "PauseAll" => \A h \in Range(jobs) : ~heap[h].enabled
    /\ last.op = "ResumeAll" => \A h \in Range(jobs) : heap[h].enabled

\* ---------------------------------------------------------------- emergency
\* C12: a tick invokes every queued emergency job exactly once and leaves the
\* queue empty, and it invokes nothing that is neither queued nor in the
\* registry: an emergency job that an earlier tick ran is not run again.
C12_EmergencyDrainsOnce ==
    [][Ticking =>
          /\ ejobs' = <<>>
          /\ \A h \in Range(ejobs) : ran'[h] = 1
          /\ \A h \in Handles \ (Range(ejobs) \cup Range(jobs)) : ran'[h] = 0]_vars

\* A tick has drained a queue of two emergency jobs, running each once.
C12_Witness ==
    /\ last.op = "RunPending"
    /\ ejobs = <<>>
    /\ Cardinality({h \in Handles : ran[h] = 1 /\ h \notin Range(jobs)}) = 2

\* ---------------------------------------------------------------- NextRun
\* C14: NextRun() on an empty registry returns nil; otherwise it returns a
\* job of the sequence, and no job of the sequence has an earlier nextRun.
C14_NextRunEarliest ==
    [][(last'.op = "NextRun" /\ NextRun) =>
          IF Len(jobs) = 0
          THEN last'.h = Nil /\ ~last'.ret
          ELSE /\ last'.ret
               /\ last'.h \in Range(jobs)
               /\ last'.h \in Range(jobs')
               /\ \A g \in Range(jobs) :
                     heap'[g].nextRun >= heap'[last'.h].nextRun]_vars

\* NextRun() has returned a job that is not the first in interval order.
C14_Witness ==
    /\ last.op = "NextRun"
    /\ last.ret
    /\ \E g \in Range(jobs) :
        /\ heap[g].interval < heap[last.h].interval
        /\ heap[g].nextRun > heap[last.h].nextRun

\* C15: NextRun() changes neither the order of the jobs sequence, nor the
\* name index, nor the emergency queue, nor the running flag.
C15_NextRunPure ==
    [][(last'.op = "NextRun" /\ NextRun) =>
          UNCHANGED <<jobs, jobMap, ejobs, isRunning>>]_vars

\* ---------------------------------------------------------------- by name
ByNameOps ==
    {"UpdateIntervalWithName", "PauseWithName", "ResumeWithName", "RemoveWithName"}

\* The step is a call of one of the name-addressed operations on name n.
ByNameCall(n) ==
    /\ last'.op \in ByNameOps
    /\ last'.name = n
    /\ \/ \E i \in Intervals : UpdateIntervalWithName(n, i)
       \/ PauseWithName(n)
       \/ ResumeWithName(n)
       \/ RemoveWithName(n)

\* C17: a name-addressed operation returns false exactly when the name is not
\* in the name index, and then changes neither the sequence, the index, the
\* queue, the flag nor any job.
C17_NotFoundIsFalse ==
    [][\A n \in Names :
          ByNameCall(n) =>
              /\ last'.ret = (jobMap[n] # Nil)
              /\ ~last'.ret => UNCHANGED <<jobs, jobMap, ejobs, isRunning, heap>>]_vars

\* C20: RemoveWithName(name) with the name in the index returns true, leaves
\* the name resolving to no job, and takes the job it indexed out of the
\* sequence, the other jobs keeping their order.
C20_RemoveWithNameFound ==
    [][\A n \in Names :
          (last'.op = "RemoveWithName" /\ RemoveWithName(n) /\ jobMap[n] # Nil) =>
              /\ last'.ret
              /\ jobMap'[n] = Nil
              /\ jobMap[n] \notin Range(jobs')
              /\ jobs' = Without(jobs, jobMap[n])]_vars

\* ---------------------------------------------------------------- instances
InstanceOps == {"Every", "RunPending", "RunAll", "RunAllWithDelay"}

\* C16: an operation on the scheduler s neither changes the registry of the
\* default scheduler nor runs its jobs, an operation on the default scheduler
\* does neither to s, and s.RunAll() runs every job of s once.
C16_InstancesIndependent ==
    [][/\ last'.op \in InstanceOps =>
            /\ djobs' = djobs
            /\ \A h \in Range(djobs) : heap'[h] = heap[h] /\ ran'[h] = 0
       /\ last'.op \in {"gocron.Every", "gocron.RunAll"} =>
            /\ jobs' = jobs
            /\ \A h \in Range(jobs) : heap'[h] = heap[h] /\ ran'[h] = 0
       /\ (last'.op = "RunAll" /\ RunAll) =>
            \A h \in Range(jobs) : ran'[h] = 1]_vars

\* ---------------------------------------------------------------- tick order
\* Job g comes before job h in the order of a tick: by the nextRun they have
\* when the tick starts, then by their places in the sequence.
Before(g, h) ==
    \/ heap[g].nextRun < heap[h].nextRun
    \/ /\ heap[g].nextRun = heap[h].nextRun
       /\ IndexOf(jobs, g) < IndexOf(jobs, h)

\* C13: a tick runs the queued emergency jobs first, in the order of their
\* Emergency() calls, and then the due registry jobs in ascending order of the
\* nextRun they had when the tick started, jobs of equal nextRun in the
\* relative order they had in the sequence.
C13_TickOrder ==
    [][Ticking =>
          /\ Len(order') >= Len(ejobs)
          /\ SubSeq(order', 1, Len(ejobs)) = ejobs
          /\ \A i, k \in (Len(ejobs) + 1)..Len(order') :
                /\ order'[i] \in Range(jobs)
                /\ i < k => Before(order'[i], order'[k])]_vars

\* ------------------------------------------------------------ C18
\* C18: while a runPending is in progress, from its Lock() to its Unlock(),
\* no operation of another thread goes on: a call waiting at its Lock() stays
\* there, no call is in its body or returns, no operation is recorded, and
\* the name index, the set of registered jobs, their intervals and enabled
\* flags, the running flag and the handles allocated are what they were; the
\* emergency queue changes only by being drained by the tick.
C18_TickAtomic ==
    [][tick.owner # Free =>
          /\ \A t \in Threads \ {tick.owner} :
                /\ call'[t].at \in {"none", "lock"}
                /\ call[t].at = "lock" => call'[t] = call[t]
          /\ jobMap' = jobMap
          /\ nextId' = nextId
          /\ isRunning' = isRunning
          /\ Range(jobs') = Range(jobs)
          /\ ejobs' = ejobs \/ (tick.k = 0 /\ ejobs' = <<>>)
          /\ \A h \in Range(jobs) :
                /\ heap'[h].interval = heap[h].interval
                /\ heap'[h].enabled = heap[h].enabled
          /\ \/ last' = last
             \/ tick' = NoTick /\ last'.op \in {"RunPending", "tick"}]_vars

\* A tick has run an emergency job and is about to run a registry job while
\* a client waits at the Lock() of its operation.
C18_Witness ==
    /\ tick.owner # Free
    /\ tick.k = 1
    /\ Len(order) = 1
    /\ Len(jobs) = 1
    /\ \E t \in Threads \ {tick.owner} : call[t].at = "lock"

\* ------------------------------------------------------------ C19
\* The fields of the scheduler that the body of each operation writes.
Writes(op) ==
    CASE op = "Every" -> {"jobs"}
      [] op = "EveryWithName" -> {"jobs", "jobMap"}
      [] op = "Emergency" -> {"ejobs"}
      [] op = "RunPending" -> {"jobs", "ejobs"}
      [] op = "NextRun" -> {"jobs"}
      [] op = "Remove" -> {"jobs"}
      [] op = "RemoveWithName" -> {"jobs", "jobMap"}
      [] op = "Clear" -> {"jobs", "jobMap"}
      [] op = "Location" -> {"location"}
      [] OTHER -> {}

\* The fields of the scheduler that the body of each operation reads.
Reads(op) ==
    CASE op = "Every" -> {"jobs", "location"}
      [] op = "EveryWithName" -> {"jobs", "jobMap", "location"}
      [] op = "Emergency" -> {"ejobs", "location"}
      [] op = "RunPending" -> {"jobs", "ejobs"}
      [] op = "NextRun" -> {"jobs"}
      [] op = "Remove" -> {"jobs"}
      [] op = "RemoveWithName" -> {"jobs", "jobMap"}
      [] op \in {"UpdateIntervalWithName", "PauseWithName", "PauseAll",
                 "ResumeWithName", "ResumeAll"} -> {"jobMap"}
      [] op = "IsRunning" -> {"isRunning"}
      [] OTHER -> {}

\* What the next step of a goroutine of Start() writes and reads: the
\* select that takes a tick reads s.isRunning, the first tick ranges over
\* s.jobs and sets s.isRunning, the stop case clears it, runPending is as
\* RunPending.
LoopWrites(l) ==
    CASE loops[l].pc \in {"setRunning", "stopping"} -> {"isRunning"}
      [] loops[l].pc = "ticking" -> Writes("RunPending")
      [] OTHER -> {}

LoopReads(l) ==
    CASE loops[l].pc = "select" /\ ticker[l] # 0 -> {"isRunning"}
      [] loops[l].pc = "init" -> {"jobs"}
      [] loops[l].pc = "ticking" -> Reads("RunPending")
      [] OTHER -> {}

\* The accesses in progress of a thread or goroutine.
Writing(e) ==
    IF e[1] = "loop" THEN LoopWrites(e[2])
    ELSE IF call[e[2]].at \in {"body", "half"} THEN Writes(call[e[2]].op)
    ELSE {}

Reading(e) ==
    IF e[1] = "loop" THEN LoopReads(e[2])
    ELSE IF call[e[2]].at \in {"body", "half"} THEN Reads(call[e[2]].op)
    ELSE {}

\* C19: no two threads or goroutines are at the same time at an access to
\* the same field of the scheduler (s.jobs, s.jobMap, s.ejobs, s.isRunning,
\* s.location) with one of the two accesses a write.
C19_NoDataRace ==
    \A a, b \in Endpoints :
        a # b => Writing(a) \cap (Reading(b) \cup Writing(b)) = {}

\* ------------------------------------------------------------ C21
\* C21: UpdateIntervalWithName(name, n) with the name in the index returns
\* true and changes the interval of the indexed job and nothing else: the
\* sequence keeps every job at its position (it is not put back in interval
\* order), and the index, the queue, the flag and the other jobs are as before.
C21_UpdateIntervalOnly ==
    [][\A n \in Names, i \in Intervals :
          (/\ last'.op = "UpdateIntervalWithName"
           /\ UpdateIntervalWithName(n, i)
           /\ jobMap[n] # Nil) =>
              /\ last'.ret
              /\ UNCHANGED <<jobs, jobMap, ejobs, isRunning>>
              /\ heap' = [heap EXCEPT ![jobMap[n]].interval = i]]_vars

\* An update has just left the sequence out of interval order.
C21_Witness ==
    /\ last.op = "UpdateIntervalWithName"
    /\ last.ret
    /\ last.h \in Range(jobs)
    /\ ~SortedByInterval(jobs, heap)

\* ------------------------------------------------------------ C22
\* Clear() is between its two statements: s.jobs is empty, s.jobMap not yet.
HalfCleared == \E t \in Threads : call[t].op = "Clear" /\ call[t].at = "half"

\* C22: Clear() leaves the queue and the flag alone and returns with the
\* sequence empty and no name in the index, so that a NextRun() that follows
\* returns nil; while it is between its two statements, no operation of
\* another thread and no tick begins, goes on or returns.
C22_ClearAtomic ==
    /\ [][\A t \in Threads :
             ClearJobs(t) \/ ClearMap(t) => UNCHANGED <<ejobs, isRunning>>]_vars
    /\ [][\A t \in Threads :
             ClearMap(t) =>
                 /\ Len(jobs') = 0
                 /\ \A n \in Names : jobMap'[n] = Nil]_vars
    /\ [][last.op = "Clear" /\ last'.op = "NextRun" => last'.h = Nil]_vars
    /\ [][HalfCleared =>
             \/ \E t \in Threads : ClearMap(t)
             \/ /\ UNCHANGED <<jobs, jobMap, ejobs, isRunning, last, tick>>
                /\ \A t \in Threads :
                      call'[t].at \in {"body", "unlock"} => call'[t] = call[t]]_vars

\* Clear() has emptied a sequence of one job, the name is still in the index,
\* and the driver waits at the Lock() of its RunPending().
C22_Witness ==
    /\ HalfCleared
    /\ jobs = <<>>
    /\ \E n \in Names : jobMap[n] # Nil
    /\ call[Driver].at = "lock"

\* ------------------------------------------------------------ C23
\* C23: RunAllWithDelay(d) calls run() once on every job of the sequence and
\* on no other job, in ascending order of the nextRun the jobs have when it
\* is called, due or not, each job initialized first if it was not; the
\* emergency queue and its jobs are left as they are.
C23_RunAllWithDelayRunsAll ==
    [][\A d \in Delays :
          (last'.op = "RunAllWithDelay" /\ RunAllWithDelay(d)) =>
              LET od == runAllWithDelay(jobs, clock).order
              IN  /\ Len(od) = Len(jobs)
                  /\ Range(od) = Range(jobs)
                  /\ \A i, k \in 1..Len(od) :
                        i < k => heap[od[i]].nextRun <= heap[od[k]].nextRun
                  /\ \A h \in Handles :
                        ran'[h] = IF h \in Range(jobs) THEN 1 ELSE 0
                  /\ \A h \in Range(jobs) :
                        heap'[h] = JobRun(InitIfNeeded(heap[h], clock))
                  /\ ejobs' = ejobs
                  /\ \A h \in Range(ejobs) : heap'[h] = heap[h]]_vars

\* RunAllWithDelay has run two jobs, one of them ahead of its time, with a
\* job waiting in the emergency queue.
C23_Witness ==
    /\ last.op = "RunAllWithDelay"
    /\ Len(jobs) >= 2
    /\ Len(ejobs) >= 1
    /\ \A h \in Range(jobs) : ran[h] = 1
    /\ \E h \in Range(jobs) : heap[h].lastRun > clock

\* ------------------------------------------------------------ C24
\* What NextRun() returns for the sequence js: nil, or the job of least nextRun.
NextRunOf(js, hp) == IF Len(js) = 0 THEN Nil ELSE SortSort(js, hp)[1]

\* C24: Emergency() appends its new job to the emergency queue and leaves
\* the sequence, its jobs, the name index and what NextRun() returns as they
\* were; the next tick runs every queued job whatever shouldRun says; a job
\* of the queue is never in the sequence, which only ever gains the job a
\* step has just created.
C24_EmergencyQueueOnly ==
    /\ [][(last'.op = "Emergency" /\ Emergency) =>
             /\ ejobs' = Append(ejobs, last'.h)
             /\ last'.h \notin Range(jobs) \cup Range(ejobs)
             /\ UNCHANGED <<jobs, jobMap>>
             /\ \A h \in Range(jobs) : heap'[h] = heap[h]
             /\ NextRunOf(jobs', heap') = NextRunOf(jobs, heap)]_vars
    /\ [][Ticking =>
             \A h \in Range(ejobs) : ran'[h] = 1 /\ h \notin Range(jobs')]_vars
    /\ [](Range(ejobs) \cap Range(jobs) = {})
    /\ [][Range(jobs') \ Range(jobs) \subseteq {nextId}]_vars

\* A tick has just run a job that is not in the sequence, next to a
\* registered job that was not due.
C24_Witness ==
    /\ last.op = "RunPending"
    /\ ejobs = <<>>
    /\ \E h \in Allocated : ran[h] = 1 /\ h \notin Range(jobs)
    /\ \E h \in Range(jobs) : ran[h] = 0

\* ------------------------------------------------------------ C25
\* C25: under fair scheduling a Stop() that has found the scheduler running
\* and is about to send the stop signal eventually returns to its caller.
C25_StopReturns ==
    \A t \in Threads : (pc[t] = "stopSend") ~> (pc[t] = "idle")

\* ------------------------------------------------------------ C26
\* A Start() that waits for the first tick of a second or later goroutine:
\* one that follows a Stop() that has returned.
StartsAgain(t) == pc[t] = "waitStarted" /\ nLoops >= 2

\* C26, the Start() of a later cycle: called while the clock still runs, it
\* eventually returns with the scheduler running.
C26_StartAgainReturns ==
    \A t \in Threads :
        (StartsAgain(t) /\ clock < MaxLifeTime) ~> (pc[t] = "idle" /\ isRunning)

\* C26: after a Stop() has returned the cycle can be gone through again: the
\* Start() that follows eventually returns with the scheduler running, and
\* the Stop() that follows it eventually returns with the scheduler stopped.
C26_LifecycleCycles ==
    /\ C26_StartAgainReturns
    /\ \A t \in Threads :
          (pc[t] = "stopSend" /\ nLoops >= 2) ~> (pc[t] = "idle" /\ ~isRunning)

====
